---- MODULE Spec2Model ----
(***************************************************************************)
(* A model of dbpf.py: the DBPF container reader.  The byte source is a    *)
(* sequence of bytes with a read cursor; the header and the index entries  *)
(* are decoded from those bytes as struct.unpack decodes them (little      *)
(* endian, no padding).  The caller constructs a DBPF over the source and  *)
(* then reads its index, _index_entries() and records properties, moving   *)
(* the cursor of the shared source in between.  Exceptions are modelled by *)
(* the name of the Python exception class that reaches the caller.         *)
(* records builds its keys with tgi.TGI, which is bound when the file runs *)
(* as a script (line 182); the model covers that configuration.            *)
(***************************************************************************)
EXTENDS Integers, Sequences, FiniteSets, TLC

VARIABLES
    fx,           \* the fields the source was written from (never read by the reader)
    source,       \* the bytes of the byte source
    cursor,       \* the read position of the byte source
    pc,           \* "new": nothing constructed; "open": the caller holds a DBPF; "failed": __init__ raised
    header,       \* self.header: <<>> before it is assigned, <<Header>> after
    ret,          \* what the last operation gave the caller
    lastRecords   \* the outcome of the latest records request, and whether one came before it

vars == <<fx, source, cursor, pc, header, ret, lastRecords>>

(***************************************************************************)
(* Bounds of the model.                                                    *)
(***************************************************************************)
MaxCount == 2      \* the largest indexRecordEntryCount written to a source
MaxPayload == 2    \* the number of payload bytes, and the largest mnSizeDecompressed

(***************************************************************************)
(* struct layouts: the byte width of every field, in order.                *)
(***************************************************************************)
headerTemplate == <<4, 4, 4, 4, 4, 4, 4, 4, 4, 4, 4, 4, 4, 4, 4, 4, 8, 24>>

indexEntryTemplate == <<4, 4, 4, 4, 4, 4, 4, 2, 2>>

RECURSIVE SumSeq(_)
SumSeq(s) ==
    IF s = <<>> THEN 0 ELSE Head(s) + SumSeq(Tail(s))

\* struct.Struct(...).size for a '<' (unpadded) format
HeaderStructSize == SumSeq(headerTemplate)

IndexEntryStructSize == SumSeq(indexEntryTemplate)

\* the literal b'DBPF'
MagicDBPF == <<68, 66, 80, 70>>

Min(a, b) == IF a <= b THEN a ELSE b

(***************************************************************************)
(* struct.unpack: a little-endian unsigned integer from its bytes, and the *)
(* k-th field of a packed block.                                           *)
(***************************************************************************)
RECURSIVE LittleEndian(_)
LittleEndian(bytes) ==
    IF bytes = <<>> THEN 0 ELSE Head(bytes) + 256 * LittleEndian(Tail(bytes))

FieldBytes(template, data, k) ==
    LET start == SumSeq(SubSeq(template, 1, k - 1))
    IN  SubSeq(data, start + 1, start + template[k])

HeaderUnpack(data) ==
    [ fileIdentifier          |-> FieldBytes(headerTemplate, data, 1),
      fileMajor               |-> LittleEndian(FieldBytes(headerTemplate, data, 2)),
      fileMinor               |-> LittleEndian(FieldBytes(headerTemplate, data, 3)),
      userMajor               |-> LittleEndian(FieldBytes(headerTemplate, data, 4)),
      userMinor               |-> LittleEndian(FieldBytes(headerTemplate, data, 5)),
      flags                   |-> LittleEndian(FieldBytes(headerTemplate, data, 6)),
      creationTime            |-> LittleEndian(FieldBytes(headerTemplate, data, 7)),
      updatedTime             |-> LittleEndian(FieldBytes(headerTemplate, data, 8)),
      indexRecordMajorVersion |-> LittleEndian(FieldBytes(headerTemplate, data, 9)),
      indexRecordEntryCount   |-> LittleEndian(FieldBytes(headerTemplate, data, 10)),
      indexOffsetBytesV1      |-> LittleEndian(FieldBytes(headerTemplate, data, 11)),
      indexRecordSizeBytes    |-> LittleEndian(FieldBytes(headerTemplate, data, 12)),
      holeIndexEntryCount     |-> LittleEndian(FieldBytes(headerTemplate, data, 13)),
      holeIndexOffset         |-> LittleEndian(FieldBytes(headerTemplate, data, 14)),
      holeIndexSize           |-> LittleEndian(FieldBytes(headerTemplate, data, 15)),
      indexMinorVersion       |-> LittleEndian(FieldBytes(headerTemplate, data, 16)),
      indexOffsetBytes        |-> LittleEndian(FieldBytes(headerTemplate, data, 17)),
      reserved                |-> FieldBytes(headerTemplate, data, 18) ]

IndexEntryUnpack(data) ==
    [ mType              |-> LittleEndian(FieldBytes(indexEntryTemplate, data, 1)),
      mGroup             |-> LittleEndian(FieldBytes(indexEntryTemplate, data, 2)),
      mInstanceEx        |-> LittleEndian(FieldBytes(indexEntryTemplate, data, 3)),
      mInstance          |-> LittleEndian(FieldBytes(indexEntryTemplate, data, 4)),
      mnPosition         |-> LittleEndian(FieldBytes(indexEntryTemplate, data, 5)),
      mnSize             |-> LittleEndian(FieldBytes(indexEntryTemplate, data, 6)),
      mnSizeDecompressed |-> LittleEndian(FieldBytes(indexEntryTemplate, data, 7)),
      mnCompressionType  |-> LittleEndian(FieldBytes(indexEntryTemplate, data, 8)),
      mnCommitted        |-> LittleEndian(FieldBytes(indexEntryTemplate, data, 9)) ]

(***************************************************************************)
(* The byte source: fd.seek(pos) and fd.read(n) of a binary file object.   *)
(* read(n) returns the bytes from the cursor up to n of them, fewer at the *)
(* end of the source; read(-1) returns all that is left; read(n) for       *)
(* n < -1 raises ValueError.                                               *)
(***************************************************************************)
\* a seek that leaves the cursor where it was
SeekIgnored(cur, pos) == cur

Seek(cur, pos) == pos

ReadRaises(n) == n < -1

ReadData(src, cur, n) ==
    IF n < 0 THEN SubSeq(src, cur + 1, Len(src))
    ELSE SubSeq(src, cur + 1, Min(cur + n, Len(src)))

(***************************************************************************)
(* version(major, minor): float('.'.join([str(major), str(minor)])).  The  *)
(* float is the whole part and the decimal digits of minor, of which the   *)
(* trailing zeros carry no value.                                          *)
(***************************************************************************)
RECURSIVE Digits(_)
Digits(n) ==
    IF n < 10 THEN <<n>> ELSE Append(Digits(n \div 10), n % 10)

RECURSIVE StripTrailingZeros(_)
StripTrailingZeros(ds) ==
    IF ds = <<>> THEN <<>>
    ELSE IF ds[Len(ds)] = 0 THEN StripTrailingZeros(SubSeq(ds, 1, Len(ds) - 1))
    ELSE ds

version(major, minor) ==
    [whole |-> major, fraction |-> StripTrailingZeros(Digits(minor))]

(***************************************************************************)
(* DBPF.index                                                              *)
(***************************************************************************)
\* an index that reads the modern offset field whatever the format version
IndexAlwaysModern(hdr) ==
    [ version |-> version(hdr.indexRecordMajorVersion, hdr.indexMinorVersion),
      count   |-> hdr.indexRecordEntryCount,
      offset  |-> hdr.indexOffsetBytes + 4,
      size    |-> hdr.indexRecordSizeBytes - 4 ]

Index(hdr) ==
    LET offset == IF hdr.fileMajor = 1 THEN hdr.indexOffsetBytesV1
                  ELSE hdr.indexOffsetBytes
    IN  [ version |-> version(hdr.indexRecordMajorVersion, hdr.indexMinorVersion),
          count   |-> hdr.indexRecordEntryCount,
          offset  |-> offset + 4,
          size    |-> hdr.indexRecordSizeBytes - 4 ]

(***************************************************************************)
(* DBPF._index_width: int(idx.size / idx.count).  The division raises      *)
(* ZeroDivisionError for a count of 0; int() truncates towards zero.       *)
(***************************************************************************)
TruncDiv(a, b) ==
    IF a >= 0 THEN a \div b ELSE -((-a) \div b)

\* a width that answers 0 for an empty index instead of dividing
IndexWidthZeroForEmpty(hdr) ==
    LET idx == Index(hdr)
    IN  IF idx.count = 0
        THEN [err |-> "", val |-> 0]
        ELSE [err |-> "", val |-> TruncDiv(idx.size, idx.count)]

IndexWidth(hdr) ==
    LET idx == Index(hdr)
    IN  IF idx.count = 0
        THEN [err |-> "ZeroDivisionError", val |-> 0]
        ELSE [err |-> "", val |-> TruncDiv(idx.size, idx.count)]

(***************************************************************************)
(* DBPF._index_entries: seek to the index, then one read(width) and one    *)
(* IndexEntryStruct.unpack for every i of range(0, length, width).         *)
(* unpack raises struct.error unless it is given exactly the struct's      *)
(* size; range raises ValueError for a step of 0.                          *)
(***************************************************************************)
\* a range that also yields its stop value
InRangeInclusive(i, length, width) ==
    IF width > 0 THEN i <= length ELSE i >= length

InRange(i, length, width) ==
    IF width > 0 THEN i < length ELSE i > length

RECURSIVE ReadEntries(_, _, _, _, _, _)
ReadEntries(src, cur, i, length, width, acc) ==
    IF ~InRange(i, length, width)
    THEN [err |-> "", val |-> acc, cursor |-> cur]
    ELSE IF ReadRaises(width)
    THEN [err |-> "ValueError", val |-> <<>>, cursor |-> cur]
    ELSE LET data == ReadData(src, cur, width)
         IN  IF Len(data) # IndexEntryStructSize
             THEN [err |-> "struct.error", val |-> <<>>, cursor |-> cur + Len(data)]
             ELSE ReadEntries(src, cur + Len(data), i + width, length, width,
                              Append(acc, IndexEntryUnpack(data)))

IndexEntries(hdr, src, cur) ==
    LET ind == Index(hdr)
        w   == IndexWidth(hdr)
    IN  IF w.err # ""
        THEN [err |-> w.err, val |-> <<>>, cursor |-> cur]
        ELSE LET at == Seek(cur, ind.offset)
             IN  IF w.val = 0
                 THEN [err |-> "ValueError", val |-> <<>>, cursor |-> at]
                 ELSE ReadEntries(src, at, 0, ind.size, w.val, <<>>)

(***************************************************************************)
(* DBPF.records: for every index entry, seek to mnPosition and read        *)
(* mnSizeDecompressed bytes; the key is TGI(mType, mGroup, mInstance).     *)
(***************************************************************************)
\* tgi.TGI: the Type/Group/Instance key of a resource
TGI(type, group, instance) == <<type, group, instance>>

RECURSIVE ReadRecords(_, _, _, _)
ReadRecords(src, entries, cur, acc) ==
    IF entries = <<>>
    THEN [err |-> "", val |-> acc, cursor |-> cur]
    ELSE LET e   == Head(entries)
             at  == Seek(cur, e.mnPosition)
             raw == ReadData(src, at, e.mnSizeDecompressed)
             rec == [ raw    |-> raw,
                      tgi    |-> TGI(e.mType, e.mGroup, e.mInstance),
                      offset |-> e.mnPosition,
                      length |-> e.mnSizeDecompressed ]
         IN  ReadRecords(src, Tail(entries), at + Len(raw), Append(acc, rec))

Records(hdr, src, cur) ==
    LET es == IndexEntries(hdr, src, cur)
    IN  IF es.err # ""
        THEN [err |-> es.err, val |-> <<>>, cursor |-> es.cursor]
        ELSE ReadRecords(src, es.val, es.cursor, <<>>)

(***************************************************************************)
(* The sources the reader is run on: a header packed from chosen fields,   *)
(* the index flags word, a table of canonical entries, and the payload     *)
(* bytes, cut to a chosen length.                                          *)
(***************************************************************************)
RECURSIVE Pack(_, _)
Pack(n, width) ==
    IF width = 0 THEN <<>> ELSE <<n % 256>> \o Pack(n \div 256, width - 1)

RECURSIVE Fill(_, _)
Fill(b, n) ==
    IF n = 0 THEN <<>> ELSE <<b>> \o Fill(b, n - 1)

RECURSIVE PackAll(_, _)
PackAll(template, values) ==
    IF template = <<>> THEN <<>>
    ELSE Pack(Head(values), Head(template)) \o PackAll(Tail(template), Tail(values))

\* the index table holds enough slots for every count and every start the sources use
TableSlots == MaxCount + 2

\* the two places an index offset field points at: the flags word, or one entry later
IndexOffsets == {HeaderStructSize, HeaderStructSize + IndexEntryStructSize}

TableEnd == HeaderStructSize + 4 + TableSlots * IndexEntryStructSize

FullLen == TableEnd + MaxPayload

\* slot i (from 0) of the table: its payload window starts at TableEnd or one byte later
SlotEntry(i, dsz) ==
    [ mType              |-> 257 + i,
      mGroup             |-> 65536 + i,
      mInstanceEx        |-> 9,
      mInstance          |-> 1000 + i,
      mnPosition         |-> TableEnd + (i % 2),
      mnSize             |-> 1,
      mnSizeDecompressed |-> dsz,
      mnCompressionType  |-> 0,
      mnCommitted        |-> 1 ]

PackEntry(e) ==
    PackAll(indexEntryTemplate,
            <<e.mType, e.mGroup, e.mInstanceEx, e.mInstance, e.mnPosition, e.mnSize,
              e.mnSizeDecompressed, e.mnCompressionType, e.mnCommitted>>)

RECURSIVE PackTable(_, _)
PackTable(i, dsz) ==
    IF i = TableSlots THEN <<>> ELSE PackEntry(SlotEntry(i, dsz)) \o PackTable(i + 1, dsz)

PackHeader(f) ==
    f.magic
    \o PackAll(SubSeq(headerTemplate, 2, 17),
               <<f.fileMajor, 1, 0, 0, 0, 5, 6, 7, f.count, f.offV1, f.declaredSize,
                 0, 0, 0, 10, f.offV2>>)
    \o Fill(0, 24)

RECURSIVE Payload(_)
Payload(k) ==
    IF k = MaxPayload THEN <<>> ELSE <<200 + k>> \o Payload(k + 1)

BuildSource(f) ==
    SubSeq(PackHeader(f) \o Fill(0, 4) \o PackTable(0, f.dsz) \o Payload(0), 1, f.srcLen)

Magics == {MagicDBPF, <<68, 66, 80, 32>>}

FileMajors == {1, 2, 3}

DeclaredSizes ==
    {0, 3, 4, 4 + IndexEntryStructSize + 8}
    \cup {4 + c * IndexEntryStructSize : c \in 1..MaxCount}
    \cup {4 + c * IndexEntryStructSize + 1 : c \in 1..MaxCount}

SourceLengths ==
    {50, HeaderStructSize, HeaderStructSize + 4 + IndexEntryStructSize, FullLen}

FixtureChoices ==
    [ magic        : Magics,
      fileMajor    : FileMajors,
      count        : 0..MaxCount,
      offV1        : IndexOffsets,
      declaredSize : DeclaredSizes,
      srcLen       : SourceLengths,
      dsz          : 0..MaxPayload ]

\* the legacy and the modern offset field always point at different places
OtherOffset(off) == CHOOSE o \in IndexOffsets : o # off

Fixtures ==
    { [ magic |-> c.magic, fileMajor |-> c.fileMajor, count |-> c.count,
        offV1 |-> c.offV1, offV2 |-> OtherOffset(c.offV1),
        declaredSize |-> c.declaredSize, srcLen |-> c.srcLen, dsz |-> c.dsz ]
      : c \in FixtureChoices }

\* where the caller may leave the cursor of the shared source
CallerPositions == {0, TableEnd}

(***************************************************************************)
(* State machine                                                           *)
(***************************************************************************)
NoRet ==
    [op |-> "none", err |-> "", index |-> <<>>, width |-> <<>>, entries |-> <<>>,
     records |-> <<>>]

Init ==
    /\ fx \in Fixtures
    /\ source = BuildSource(fx)
    /\ cursor = 0
    /\ pc = "new"
    /\ header = <<>>
    /\ ret = NoRet
    /\ lastRecords = <<>>

\* DBPF.__init__
Construct ==
    /\ pc = "new"
    /\ LET data == ReadData(source, Seek(cursor, 0), HeaderStructSize)
       IN  /\ cursor' = Seek(cursor, 0) + Len(data)
           /\ IF Len(data) # HeaderStructSize
              THEN /\ header' = header
                   /\ pc' = "failed"
                   /\ ret' = [NoRet EXCEPT !.op = "init", !.err = "struct.error"]
              ELSE /\ header' = <<HeaderUnpack(data)>>
                   /\ IF HeaderUnpack(data).fileIdentifier # MagicDBPF
                      THEN /\ pc' = "failed"
                           /\ ret' = [NoRet EXCEPT !.op = "init", !.err = "DBPFException"]
                      ELSE /\ pc' = "open"
                           /\ ret' = [NoRet EXCEPT !.op = "init"]
    /\ UNCHANGED <<fx, source, lastRecords>>

\* the index property
GetIndex ==
    /\ pc = "open"
    /\ ret' = [NoRet EXCEPT !.op = "index", !.index = <<Index(header[1])>>]
    /\ UNCHANGED <<fx, source, cursor, pc, header, lastRecords>>

\* the _index_width property
GetIndexWidth ==
    /\ pc = "open"
    /\ LET w == IndexWidth(header[1])
       IN  ret' = [NoRet EXCEPT !.op = "width", !.err = w.err,
                                !.width = IF w.err = "" THEN <<w.val>> ELSE <<>>]
    /\ UNCHANGED <<fx, source, cursor, pc, header, lastRecords>>

\* _index_entries()
GetIndexEntries ==
    /\ pc = "open"
    /\ LET r == IndexEntries(header[1], source, cursor)
       IN  /\ ret' = [NoRet EXCEPT !.op = "entries", !.err = r.err, !.entries = r.val]
           /\ cursor' = r.cursor
    /\ UNCHANGED <<fx, source, pc, header, lastRecords>>

\* the records property
GetRecords ==
    /\ pc = "open"
    /\ LET r == Records(header[1], source, cursor)
       IN  /\ ret' = [NoRet EXCEPT !.op = "records", !.err = r.err, !.records = r.val]
           /\ cursor' = r.cursor
           /\ lastRecords' =
                  << [ err     |-> r.err,
                       records |-> r.val,
                       again   |-> lastRecords # <<>> ] >>
    /\ UNCHANGED <<fx, source, pc, header>>

\* the caller, who owns the byte source, seeks it
CallerSeek(p) ==
    /\ pc = "open"
    /\ cursor # p
    /\ cursor' = Seek(cursor, p)
    /\ UNCHANGED <<fx, source, pc, header, ret, lastRecords>>

Next ==
    \/ Construct
    \/ GetIndex
    \/ GetIndexWidth
    \/ GetIndexEntries
    \/ GetRecords
    \/ \E p \in CallerPositions : CallerSeek(p)

Spec == Init /\ [][Next]_vars

(***************************************************************************)
(* What the source was written to say, read off the fields it was packed   *)
(* from.                                                                   *)
(***************************************************************************)
\* the offset field the format version selects
SelectedOffset == IF fx.fileMajor = 1 THEN fx.offV1 ELSE fx.offV2

\* the slot of the table that the i-th entry (from 1) of the index is
SlotOf(i) == (SelectedOffset - HeaderStructSize) \div IndexEntryStructSize + (i - 1)

\* count >= 1 canonical-width entries, all of them inside the source
WellFormed ==
    /\ fx.count >= 1
    /\ fx.declaredSize = 4 + fx.count * IndexEntryStructSize
    /\ fx.srcLen >= SelectedOffset + 4 + fx.count * IndexEntryStructSize

\* int((declaredSize - 4) / count), for a count that is not 0
InferredWidth ==
    IF fx.declaredSize >= 4 THEN (fx.declaredSize - 4) \div fx.count
    ELSE -((4 - fx.declaredSize) \div fx.count)

(***************************************************************************)
(* Claims                                                                  *)
(***************************************************************************)

\* C1: constructing a DBPF over a source whose first 4 bytes are not b'DBPF',
\* a source shorter than the header included, fails with DBPFException and
\* the caller gets no DBPF object.
C1_BadMagicRaisesDBPFException ==
    (pc # "new" /\ SubSeq(source, 1, 4) # MagicDBPF)
        => (pc = "failed" /\ ret.err = "DBPFException")

\* C2: the descriptor index returns has the legacy offset + 4 for fileMajor 1
\* and the modern offset + 4 for any other fileMajor, size =
\* indexRecordSizeBytes - 4 and count = indexRecordEntryCount, as written to
\* the source.
C2_IndexDescriptor ==
    ret.op = "index" =>
        /\ ret.err = ""
        /\ Len(ret.index) = 1
        /\ ret.index[1].offset = SelectedOffset + 4
        /\ ret.index[1].size = fx.declaredSize - 4
        /\ ret.index[1].count = fx.count

C2_Witness ==
    /\ ret.op = "index"
    /\ fx.fileMajor = 3
    /\ fx.offV1 # fx.offV2
    /\ ret.index[1].offset = fx.offV2 + 4
    /\ ret.index[1].size = IndexEntryStructSize

\* C3: with an entry count of 0, inferring the width, decoding the index and
\* requesting records all fail with the error kind of the empty index
\* (ZeroDivisionError, which no other input raises); no width, entries or
\* records are returned.
C3_EmptyIndexFails ==
    ret.op \in {"width", "entries", "records"} =>
        /\ fx.count = 0 =>
              /\ ret.err = "ZeroDivisionError"
              /\ ret.width = <<>>
              /\ ret.entries = <<>>
              /\ ret.records = <<>>
        /\ fx.count # 0 => ret.err # "ZeroDivisionError"

C3_Witness ==
    /\ ret.op = "records"
    /\ fx.count = 0
    /\ fx.declaredSize = 4 + IndexEntryStructSize
    /\ ret.err = "ZeroDivisionError"

\* C4: when the reported index size is not a multiple of a nonzero entry
\* count, decoding the index fails and returns no entries.
C4_IrregularIndexFails ==
    ( /\ ret.op = "entries"
      /\ fx.count > 0
      /\ (fx.declaredSize - 4) % fx.count # 0 )
        => (ret.err # "" /\ ret.entries = <<>>)

\* C5: when indexRecordSizeBytes is less than 4, computing the index
\* descriptor fails; no descriptor with a negative size is produced.
C5_SmallDeclaredSizeFails ==
    (ret.op = "index" /\ fx.declaredSize < 4)
        => (ret.err # "" /\ ret.index = <<>>)

\* C6: for a well-formed source with N >= 1 canonical-width entries, decoding
\* the index returns exactly the N entries written at index.offset + 32*i, in
\* that order, and records returns N Records in the same order, the i-th with
\* offset = entry i's position and length = entry i's decompressedSize.
C6_WellFormedDecodes ==
    /\ (ret.op = "entries" /\ WellFormed) =>
          /\ ret.err = ""
          /\ Len(ret.entries) = fx.count
          /\ \A i \in 1..fx.count : ret.entries[i] = SlotEntry(SlotOf(i), fx.dsz)
    /\ (ret.op = "records" /\ WellFormed) =>
          /\ ret.err = ""
          /\ Len(ret.records) = fx.count
          /\ \A i \in 1..fx.count :
                /\ ret.records[i].offset = SlotEntry(SlotOf(i), fx.dsz).mnPosition
                /\ ret.records[i].length = SlotEntry(SlotOf(i), fx.dsz).mnSizeDecompressed

C6_Witness ==
    /\ ret.op = "records"
    /\ WellFormed
    /\ fx.count = 2
    /\ SelectedOffset = HeaderStructSize + IndexEntryStructSize
    /\ Len(ret.records) = 2
    /\ ret.records[1].offset = TableEnd + 1
    /\ ret.records[2].offset = TableEnd
    /\ ret.records[1].tgi = <<258, 65537, 1001>>

\* C7: every Record returned by records has as many raw bytes as the
\* decompressedSize of its entry (its own length field), for every entry
\* position and every source length.
C7_RawLengthIsDeclaredLength ==
    ret.op = "records" =>
        \A i \in 1..Len(ret.records) : Len(ret.records[i].raw) = ret.records[i].length

\* C8: when an entry's window [position, position + decompressedSize) extends
\* past the end of the source, requesting records fails; no Record is
\* returned for that entry.
C8_TruncatedRecordFails ==
    (ret.op = "records" /\ ret.err = "") =>
        \A i \in 1..Len(ret.records) :
            ret.records[i].offset + ret.records[i].length <= Len(source)

\* C9: when the inferred entry width differs from the canonical 32 bytes,
\* decoding the index never returns an entry decoded with the canonical
\* layout, whatever the content and the length of the source.
C9_WidthMismatchNeverDecodes ==
    ( /\ ret.op = "entries"
      /\ fx.count > 0
      /\ InferredWidth # IndexEntryStructSize )
        => ret.entries = <<>>

\* C10: on an unchanged source, a records request returns the same outcome
\* (records in the same order with the same keys, offsets, lengths and raw
\* bytes, or the same error) as the request before it, wherever the cursor
\* of the source was left in between, and no operation on the constructed
\* DBPF changes its header.
C10_RecordsRepeatable ==
    [][ /\ pc = "open" => (header' = header /\ source' = source)
        /\ lastRecords # <<>> =>
              /\ lastRecords'[1].err = lastRecords[1].err
              /\ lastRecords'[1].records = lastRecords[1].records ]_vars

C10_Witness ==
    /\ ret.op = "records"
    /\ lastRecords # <<>>
    /\ lastRecords[1].again
    /\ Len(lastRecords[1].records) = 2
    /\ Len(lastRecords[1].records[1].raw) = 2
    /\ cursor # HeaderStructSize

====
